---------------------------- MODULE Spec2Model ----------------------------
(***************************************************************************)
(* PseudoSystem2AI (src/question_to_pdf.py): a document is annotated into  *)
(* a flat list of word occurrences and a list of sentence texts; a         *)
(* question is reduced to verb / noun / adjective keywords and the         *)
(* sentences holding those keywords are ranked by match count.             *)
(*                                                                         *)
(* The annotator (spaCy) and the text extractor (PyPDF2) are external.  A  *)
(* sentence text is represented by the token sequence the annotator gives  *)
(* for it, a document text by the sequence of its sentence texts, and a    *)
(* question by its token sequence.  Either external call may raise.        *)
(***************************************************************************)
EXTENDS Integers, Sequences, FiniteSets

VARIABLES
    document_words,   \* self.document_words: the occurrence list
    sentences,        \* self.sentences: the sentence texts
    loaded,           \* history: some load_pdf call has returned normally
    load_failed,      \* history: some load_pdf call has raised
    call              \* the last call made on the instance, with its outcome

vars == <<document_words, sentences, loaded, load_failed, call>>

---------------------------------------------------------------------------
(* Bounds of the model *)

MaxSents == 2      \* sentences in one document text
MaxWords == 8      \* entries the occurrence list may grow to
MaxQLen == 3       \* tokens in one analysed question
MaxResults == 2    \* largest max_results passed to query

---------------------------------------------------------------------------
(* Vocabulary, tokens and texts *)

\* str.lower() on the surface forms of the vocabulary
lower(w) ==
    CASE w = "Cat" -> "cat"
      [] w = "The" -> "the"
      [] w = "Do"  -> "do"
      [] w = "Big" -> "big"
      [] OTHER     -> w

\* nlp.Defaults.stop_words: lowercase function words
stop_words == {"the", "do", "on"}

Tok(text, pos) == [text |-> text, pos |-> pos]

\* The annotation of two sentence texts
SentA == <<Tok("The", "DET"), Tok("cat", "NOUN")>>
SentB == <<Tok("Cat", "NOUN"), Tok("cat", "NOUN"), Tok("ran", "VERB")>>

SentenceTexts == {SentA, SentB}

SeqsUpTo(S, n) == UNION {[1..k -> S] : k \in 0..n}

\* Document texts: up to MaxSents sentences; the empty text has no token
Texts == SeqsUpTo(SentenceTexts, MaxSents)

\* the number of tokens of the sentences of text from the i-th on
RECURSIVE WordCount(_, _)
WordCount(text, i) ==
    IF i > Len(text) THEN 0 ELSE Len(text[i]) + WordCount(text, i + 1)

\* Questions put to query()
Questions ==
    { <<>>,
      <<Tok("the", "DET")>>,
      <<Tok("Cat", "NOUN")>>,
      <<Tok("ran", "VERB")>>,
      <<Tok("sat", "VERB"), Tok("The", "DET")>>,
      <<Tok("cat", "NOUN"), Tok("Cat", "NOUN")>>,
      <<Tok("Do", "VERB"), Tok("on", "ADP")>> }

\* max_results: any integer the -r flag accepts
ResultArgs == (0 - 1)..MaxResults

\* Tokens of the questions given to _analyze_question on its own
QuestionTokens ==
    { Tok("Cat", "NOUN"), Tok("ran", "VERB"), Tok("Big", "ADJ"),
      Tok("The", "DET"), Tok("Do", "VERB"), Tok("fast", "ADV") }

AnalysedQuestions == SeqsUpTo(QuestionTokens, MaxQLen)

---------------------------------------------------------------------------
(* The annotator *)

\* [sent.text for sent in nlp(text).sents]
nlp_sents(text) == [i \in 1..Len(text) |-> text[i]]

\* the tokens of nlp(s), each with .text and .pos_
nlp_tokens(s) == [i \in 1..Len(s) |-> [text |-> s[i].text, pos |-> s[i].pos]]

---------------------------------------------------------------------------
(* _process_text *)

\* the entry appended for the token at word_id of sentence sent_id
WordEntry(token, sent_id, word_id) ==
    [ word        |-> lower(token.text),
      original    |-> token.text,
      pos         |-> token.pos,
      sentence_id |-> sent_id,
      word_id     |-> word_id ]

\* for word_id, token in enumerate(sent_doc): self.document_words.append(...)
RECURSIVE AppendWords(_, _, _, _)
AppendWords(words, sent_doc, sent_id, word_id) ==
    IF word_id >= Len(sent_doc) THEN words
    ELSE AppendWords(Append(words, WordEntry(sent_doc[word_id + 1], sent_id, word_id)),
                     sent_doc, sent_id, word_id + 1)

\* for sent_id, sentence in enumerate(self.sentences): nlp(sentence) raises
\* at sentence fail_id (fail_id = -1: it never raises)
RECURSIVE IndexSentences(_, _, _, _)
IndexSentences(words, sents, sent_id, fail_id) ==
    IF sent_id >= Len(sents) THEN [document_words |-> words, raised |-> FALSE]
    ELSE IF sent_id = fail_id THEN [document_words |-> words, raised |-> TRUE]
    ELSE IndexSentences(AppendWords(words, nlp_tokens(sents[sent_id + 1]), sent_id, 0),
                        sents, sent_id + 1, fail_id)

\* Where a load raises
FailPoints(text) ==
    {[stage |-> s, sent_id |-> 0 - 1] : s \in {"none", "extract", "annotate_text"}}
    \cup {[stage |-> "annotate_sentence", sent_id |-> k] : k \in 0..(Len(text) - 1)}

\* self._process_text(text) on the state (words, sents)
_process_text(words, sents, text, fail) ==
    IF fail.stage = "annotate_text"
    THEN [document_words |-> words, sentences |-> sents, raised |-> TRUE]
    ELSE LET new_sents == nlp_sents(text)
             r == IndexSentences(words, new_sents, 0, fail.sent_id)
         IN  [document_words |-> r.document_words,
              sentences      |-> new_sents,
              raised         |-> r.raised]

\* load_pdf body: extraction, then _process_text; any exception is re-raised
LoadResult(words, sents, text, fail) ==
    IF fail.stage = "extract"
    THEN [document_words |-> words, sentences |-> sents, raised |-> TRUE]
    ELSE _process_text(words, sents, text, fail)

---------------------------------------------------------------------------
(* _analyze_question *)

\* AnalyzeToken with the stop-word test made on the surface form instead of
\* the lowercase form
AnalyzeTokenSurfaceStop(acc, token) ==
    LET word_lower == lower(token.text)
    IN  IF token.text \in stop_words THEN acc
        ELSE IF token.pos = "VERB" THEN [acc EXCEPT !.verbs = Append(@, word_lower)]
        ELSE IF token.pos = "NOUN" THEN [acc EXCEPT !.nouns = Append(@, word_lower)]
        ELSE IF token.pos = "ADJ"  THEN [acc EXCEPT !.adjectives = Append(@, word_lower)]
        ELSE acc

\* one turn of "for token in doc": skip a stop word, else file the lowercase
\* form under the list of its tag
AnalyzeToken(acc, token) ==
    LET word_lower == lower(token.text)
    IN  IF word_lower \in stop_words THEN acc
        ELSE IF token.pos = "VERB" THEN [acc EXCEPT !.verbs = Append(@, word_lower)]
        ELSE IF token.pos = "NOUN" THEN [acc EXCEPT !.nouns = Append(@, word_lower)]
        ELSE IF token.pos = "ADJ"  THEN [acc EXCEPT !.adjectives = Append(@, word_lower)]
        ELSE acc

RECURSIVE AnalyzeTokens(_, _, _)
AnalyzeTokens(acc, doc, i) ==
    IF i > Len(doc) THEN acc
    ELSE AnalyzeTokens(AnalyzeToken(acc, doc[i]), doc, i + 1)

_analyze_question(question) ==
    LET acc == AnalyzeTokens([verbs |-> <<>>, nouns |-> <<>>, adjectives |-> <<>>],
                             nlp_tokens(question), 1)
    IN  [ verbs        |-> acc.verbs,
          nouns        |-> acc.nouns,
          adjectives   |-> acc.adjectives,
          all_keywords |-> acc.verbs \o acc.nouns \o acc.adjectives ]

---------------------------------------------------------------------------
(* _find_matching_sentences *)

\* entry['word'] in keywords, keywords a list
InList(w, keywords) == \E i \in 1..Len(keywords) : keywords[i] = w

\* sentence_matches[sent_id] = sentence_matches.get(sent_id, 0) + 1 on a dict
\* kept as the sequence of its items in insertion order
Increment(matches, sent_id) ==
    IF \E i \in 1..Len(matches) : matches[i].sent_id = sent_id
    THEN [i \in 1..Len(matches) |->
            IF matches[i].sent_id = sent_id
            THEN [matches[i] EXCEPT !.count = @ + 1]
            ELSE matches[i]]
    ELSE Append(matches, [sent_id |-> sent_id, count |-> 1])

\* CountMatches with one increment for every keyword of the list equal to the
\* word, instead of one for the word being in the list
RECURSIVE IncrementTimes(_, _, _)
IncrementTimes(matches, sent_id, n) ==
    IF n = 0 THEN matches
    ELSE IncrementTimes(Increment(matches, sent_id), sent_id, n - 1)

RECURSIVE CountMatchesPerKeyword(_, _, _, _)
CountMatchesPerKeyword(matches, words, keywords, i) ==
    IF i > Len(words) THEN matches
    ELSE CountMatchesPerKeyword(
             IncrementTimes(matches, words[i].sentence_id,
                 Cardinality({k \in 1..Len(keywords) : keywords[k] = words[i].word})),
             words, keywords, i + 1)

\* for entry in self.document_words: count the entries whose word is a keyword
RECURSIVE CountMatches(_, _, _, _)
CountMatches(matches, words, keywords, i) ==
    IF i > Len(words) THEN matches
    ELSE CountMatches(IF InList(words[i].word, keywords)
                      THEN Increment(matches, words[i].sentence_id)
                      ELSE matches,
                      words, keywords, i + 1)

\* put item x into a sequence already sorted by count descending, behind every
\* item whose count is at least its own
RECURSIVE InsertSorted(_, _)
InsertSorted(sorted, x) ==
    IF sorted = <<>> THEN <<x>>
    ELSE IF Head(sorted).count >= x.count
         THEN <<Head(sorted)>> \o InsertSorted(Tail(sorted), x)
         ELSE <<x>> \o sorted

\* sorted(items, key=count, reverse=True): stable, equal counts keep their order
RECURSIVE SortedByCount(_, _, _)
SortedByCount(sorted, items, i) ==
    IF i > Len(items) THEN sorted
    ELSE SortedByCount(InsertSorted(sorted, items[i]), items, i + 1)

\* the (sent_id, count) items after the sort
sorted_sentences(keywords) ==
    SortedByCount(<<>>, CountMatches(<<>>, document_words, keywords, 1), 1)

_find_matching_sentences(keywords, min_matches) ==
    LET kept == SelectSeq(sorted_sentences(keywords), LAMBDA it : it.count >= min_matches)
    IN  [i \in 1..Len(kept) |-> kept[i].sent_id]

---------------------------------------------------------------------------
(* query *)

\* the three warning texts query returns
EmptyDocumentState == "Najpierw wczytaj dokument uzywajac load_pdf() lub load_text()"
NoKeywordsExtracted == "Nie znaleziono slow kluczowych w pytaniu"
NoMatchingSentences == "Nie znaleziono pasujacych fragmentow w dokumencie"

Warning(w) == [kind |-> "warning", warning |-> w, texts |-> <<>>]

\* ids[:max_results]
SliceTo(ids, max_results) ==
    LET n == Len(ids)
        stop == IF max_results >= 0
                THEN (IF max_results < n THEN max_results ELSE n)
                ELSE (IF n + max_results > 0 THEN n + max_results ELSE 0)
    IN  SubSeq(ids, 1, stop)

\* for sent_id in ...: results.append(self.sentences[sent_id]); an index past
\* the end of the list raises IndexError
RECURSIVE Render(_, _, _)
Render(results, ids, i) ==
    IF i > Len(ids) THEN [kind |-> "sentences", warning |-> "", texts |-> results]
    ELSE IF ids[i] >= Len(sentences)
         THEN [kind |-> "raised", warning |-> "IndexError", texts |-> <<>>]
         ELSE Render(Append(results, sentences[ids[i] + 1]), ids, i + 1)

NoAnalysis == [verbs |-> <<>>, nouns |-> <<>>, adjectives |-> <<>>, all_keywords |-> <<>>]

\* query(question, max_results): the result, with the analysis and ranking made
\* on the way and the number of annotator calls
QueryResult(question, max_results) ==
    IF document_words = <<>>
    THEN [result |-> Warning(EmptyDocumentState), nlp_calls |-> 0,
          analysis |-> NoAnalysis, counts |-> <<>>, matching |-> <<>>]
    ELSE LET analysis == _analyze_question(question)
         IN  IF analysis.all_keywords = <<>>
             THEN [result |-> Warning(NoKeywordsExtracted), nlp_calls |-> 1,
                   analysis |-> analysis, counts |-> <<>>, matching |-> <<>>]
             ELSE LET matching == _find_matching_sentences(analysis.all_keywords, 1)
                      counts == sorted_sentences(analysis.all_keywords)
                  IN  IF matching = <<>>
                      THEN [result |-> Warning(NoMatchingSentences), nlp_calls |-> 1,
                            analysis |-> analysis, counts |-> counts,
                            matching |-> matching]
                      ELSE [result |-> Render(<<>>, SliceTo(matching, max_results), 1),
                            nlp_calls |-> 1, analysis |-> analysis,
                            counts |-> counts, matching |-> matching]

---------------------------------------------------------------------------

Init ==
    /\ document_words = <<>>
    /\ sentences = <<>>
    /\ loaded = FALSE
    /\ load_failed = FALSE
    /\ call = [op |-> "__init__"]

\* load_pdf(pdf_path): the text of the file, then _process_text; the call may
\* raise at any of FailPoints.  A text is taken only while the occurrence list
\* stays within MaxWords entries.
load_pdf ==
    /\ \E text \in {t \in Texts : Len(document_words) + WordCount(t, 1) <= MaxWords} :
         \E fail \in FailPoints(text) :
           \E r \in {LoadResult(document_words, sentences, text, fail)} :
               /\ document_words' = r.document_words
               /\ sentences' = r.sentences
               /\ loaded' = (loaded \/ ~r.raised)
               /\ load_failed' = (load_failed \/ r.raised)
               /\ call' = [ op |-> "load_pdf",
                            text |-> text,
                            fail |-> fail,
                            raised |-> r.raised,
                            pre_document_words |-> document_words,
                            pre_sentences |-> sentences ]

\* query(question, max_results); it leaves the document state as it is
query ==
    /\ \E question \in Questions :
         \E max_results \in ResultArgs :
           \E q \in {QueryResult(question, max_results)} :
               call' = [ op |-> "query",
                         question |-> question,
                         max_results |-> max_results,
                         result |-> q.result,
                         nlp_calls |-> q.nlp_calls,
                         analysis |-> q.analysis,
                         counts |-> q.counts,
                         matching |-> q.matching ]
    /\ UNCHANGED <<document_words, sentences, loaded, load_failed>>

Next == load_pdf \/ query

Spec == Init /\ [][Next]_vars

\* _analyze_question called on its own, on a question drawn at the start
InitQuestion ==
    /\ document_words = <<>>
    /\ sentences = <<>>
    /\ loaded = FALSE
    /\ load_failed = FALSE
    /\ \E question \in AnalysedQuestions :
         call = [op |-> "question", question |-> question]

analyze_question ==
    /\ call.op = "question"
    /\ call' = [ op |-> "_analyze_question",
                 question |-> call.question,
                 analysis |-> _analyze_question(call.question) ]
    /\ UNCHANGED <<document_words, sentences, loaded, load_failed>>

NextQuestion == analyze_question

SpecQuestion == InitQuestion /\ [][NextQuestion]_vars

---------------------------------------------------------------------------
(* Claims *)

NoFail == [stage |-> "none", sent_id |-> 0 - 1]

\* the state of a fresh instance after one successful load of text
FreshLoad(text) == LoadResult(<<>>, <<>>, text, NoFail)

\* C1: after a successful load of a text, on an instance that was fresh or had
\* only successful loads before, the occurrence list and the sentence list are
\* those of a fresh instance that loaded the text once.
C1_LoadReplacesState ==
    (call.op = "load_pdf" /\ ~call.raised /\ ~load_failed)
        => /\ document_words = FreshLoad(call.text).document_words
           /\ sentences = FreshLoad(call.text).sentences

\* C2: every entry of the occurrence list has a sentence_id that indexes the
\* sentence list: 0 <= sentence_id < len(sentences) (here in the states reached
\* by loads that all succeeded, and queries).
C2_SentenceIdsValid ==
    ~load_failed
        => \A i \in 1..Len(document_words) :
              /\ document_words[i].sentence_id >= 0
              /\ document_words[i].sentence_id < Len(sentences)

\* C3: a query on an instance on which no load has succeeded returns the
\* EmptyDocumentState warning alone and makes no call to the annotator.
C3_QueryBeforeLoad ==
    (call.op = "query" /\ ~loaded)
        => /\ call.result = Warning(EmptyDocumentState)
           /\ call.nlp_calls = 0

\* C4: the ranking is ordered by match count descending and, on equal counts,
\* by ascending sentence_id; with max_results = 1 only the first of it is
\* returned.
C4_RankingOrdered ==
    (call.op = "query" /\ loaded /\ ~load_failed)
        => /\ \A i, j \in 1..Len(call.counts) :
                i < j => \/ call.counts[i].count > call.counts[j].count
                         \/ /\ call.counts[i].count = call.counts[j].count
                            /\ call.counts[i].sent_id < call.counts[j].sent_id
           /\ (call.max_results = 1 /\ call.result.kind = "sentences")
                => /\ Len(call.result.texts) = 1
                   /\ \A j \in 2..Len(call.counts) :
                        call.counts[j].count = call.counts[1].count
                            => call.counts[1].sent_id < call.counts[j].sent_id

\* the first n entries of a sequence, n >= 0
FirstN(seq, n) == [i \in 1..(IF n < Len(seq) THEN n ELSE Len(seq)) |-> seq[i]]

\* C5: when query returns sentence texts, their number is at most max_results
\* and they are the texts of the first max_results entries of the ranking, in
\* ranking order, for every integer max_results.
C5_MaxResultsBounds ==
    (call.op = "query" /\ call.result.kind = "sentences" /\ call.result.texts # <<>>)
        => /\ Len(call.result.texts) <= call.max_results
           /\ Len(call.result.texts) = Len(FirstN(call.matching, call.max_results))
           /\ \A i \in 1..Len(call.result.texts) :
                call.result.texts[i] = sentences[call.matching[i] + 1]

\* C6: after successful loads and queries, a query with max_results >= 1
\* returns without raising: one of the three distinct warnings alone, or at
\* least one sentence text; keywords without a matching sentence give the
\* NoMatchingSentences warning.
C6_QueryReturnsValue ==
    (call.op = "query" /\ ~load_failed /\ call.max_results >= 1)
        => /\ call.result.kind \in {"warning", "sentences"}
           /\ call.result.kind = "warning"
                => call.result.warning \in
                     {EmptyDocumentState, NoKeywordsExtracted, NoMatchingSentences}
           /\ call.result.kind = "sentences" => Len(call.result.texts) >= 1
           /\ (call.analysis.all_keywords # <<>> /\ call.matching = <<>>)
                => call.result = Warning(NoMatchingSentences)
           /\ Cardinality({EmptyDocumentState, NoKeywordsExtracted,
                           NoMatchingSentences}) = 3

\* a token that gives no keyword: a stop word, or a tag other than VERB, NOUN, ADJ
NoKeyword(token) ==
    \/ lower(token.text) \in stop_words
    \/ token.pos \notin {"VERB", "NOUN", "ADJ"}

\* C7: against a successfully loaded document, also one without tokens, a
\* question whose tokens are all stop words or untracked tags gives the
\* NoKeywordsExtracted warning alone.
C7_StopWordQuestionWarns ==
    (/\ call.op = "query"
     /\ loaded
     /\ call.question # <<>>
     /\ \A i \in 1..Len(call.question) : NoKeyword(call.question[i]))
        => call.result = Warning(NoKeywordsExtracted)

\* C8: a load that raises leaves the occurrence list and the sentence list as
\* they were before the load began.
C8_FailedLoadKeepsState ==
    (call.op = "load_pdf" /\ call.raised)
        => /\ document_words = call.pre_document_words
           /\ sentences = call.pre_sentences

KeywordSet(keywords) == {keywords[i] : i \in 1..Len(keywords)}

\* the keyword list without its repeats, first appearances kept
RECURSIVE Distinct(_)
Distinct(keywords) ==
    IF keywords = <<>> THEN <<>>
    ELSE LET front == Distinct(SubSeq(keywords, 1, Len(keywords) - 1))
             last == keywords[Len(keywords)]
         IN  IF last \in KeywordSet(front) THEN front ELSE Append(front, last)

\* the entries of the occurrence list in sentence s whose word is in K
Occurrences(s, K) ==
    {i \in 1..Len(document_words) :
        document_words[i].sentence_id = s /\ document_words[i].word \in K}

\* C9: the match count of a sentence is the number of entries of the
\* occurrence list with its sentence_id whose word is a keyword, each entry
\* counted once however often the keyword list repeats the word; the ranking
\* for a keyword list is the ranking for its distinct words.
C9_MatchCountIsOccurrences ==
    (call.op = "query" /\ call.analysis.all_keywords # <<>>)
        => LET keywords == call.analysis.all_keywords
               K == KeywordSet(keywords)
               ids == {document_words[i].sentence_id : i \in 1..Len(document_words)}
           IN  /\ \A s \in ids :
                    Occurrences(s, K) # {}
                        => \E i \in 1..Len(call.counts) :
                              /\ call.counts[i].sent_id = s
                              /\ call.counts[i].count = Cardinality(Occurrences(s, K))
               /\ \A i \in 1..Len(call.counts) :
                    /\ call.counts[i].sent_id \in ids
                    /\ call.counts[i].count =
                         Cardinality(Occurrences(call.counts[i].sent_id, K))
                    /\ \A j \in 1..Len(call.counts) :
                         call.counts[j].sent_id = call.counts[i].sent_id => i = j
               /\ call.matching = _find_matching_sentences(Distinct(keywords), 1)
               /\ call.counts = sorted_sentences(Distinct(keywords))

\* C9 witness: the keyword list repeats a word and a sentence holding that word
\* twice is counted twice.
C9_Witness ==
    /\ call.op = "query"
    /\ call.analysis.all_keywords = <<"cat", "cat">>
    /\ \E i \in 1..Len(call.counts) : call.counts[i].count = 2
    /\ Len(call.counts) = 2

\* the lowercase forms of the tokens of question with tag pos that are no stop words
KeywordsOf(question, pos) ==
    LET kept == SelectSeq(question,
                          LAMBDA t : t.pos = pos /\ lower(t.text) \notin stop_words)
    IN  [i \in 1..Len(kept) |-> lower(kept[i].text)]

\* C10: a token that is no stop word and is tagged VERB, NOUN or ADJ gives its
\* lowercase form to the list of its tag and to no other, any other token to
\* none; all_keywords is verbs, then nouns, then adjectives, each in order of
\* appearance, and its length is the sum of theirs.
C10_AnalysisPartitions ==
    call.op = "_analyze_question"
        => LET a == call.analysis
               q == call.question
           IN  /\ a.verbs = KeywordsOf(q, "VERB")
               /\ a.nouns = KeywordsOf(q, "NOUN")
               /\ a.adjectives = KeywordsOf(q, "ADJ")
               /\ a.all_keywords = a.verbs \o a.nouns \o a.adjectives
               /\ Len(a.all_keywords) = Len(a.verbs) + Len(a.nouns) + Len(a.adjectives)
               /\ Len(a.all_keywords) =
                    Cardinality({i \in 1..Len(q) : ~NoKeyword(q[i])})

\* C10 witness: a capitalised stop word tagged VERB is dropped, and the verb
\* goes before the noun that came first in the question.
C10_Witness ==
    /\ call.op = "_analyze_question"
    /\ call.question = <<Tok("Do", "VERB"), Tok("Cat", "NOUN"), Tok("ran", "VERB")>>
    /\ call.analysis.all_keywords = <<"ran", "cat">>

=============================================================================
